---- MODULE Spec2Model ----
(***************************************************************************)
(* Model of executor/cte.go: the recursive-CTE producer (cteProducer), the *)
(* consumer cursors (CTEExec) that share it, the hash deduplication and    *)
(* the limit-aware retrieval.                                              *)
(*                                                                         *)
(* Rows are single integers (one column; the dedup key is all columns).    *)
(* Indices that the source keeps 0-based (chkIdx, RowPtr, sel) are 0-based *)
(* here too; TLA+ sequences are 1-based, hence the "+ 1" on every access.  *)
(***************************************************************************)
EXTENDS Integers, Sequences, FiniteSets, TLC

VARIABLES
    p,      \* the shared cteProducer, its three tables and its two sub-plans
    e,      \* the CTEExec cursors: chkIdx, cursor, meetFirstBatch
    lock,   \* holder of resTbl's lock, or NoOne
    pc,     \* position of the produce() call in flight and its local chks
    st,     \* each consumer's place in the Open/Next/Close protocol
    out,    \* history: rows each consumer received since its last Open
    last,   \* history: the call that made the last step, and what it returned
    h       \* history of the evaluation under way

vars == <<p, e, lock, pc, st, out, last, h>>

(***************************************************************************)
(* Bounds.                                                                 *)
(***************************************************************************)
\* Largest row value; the "incr" recursive step maps x to x+1 while x < Top.
Top == 3
\* SpecDedup: the sub-plans yield at most this many rows in an evaluation.
MaxPulled == 3
\* SpecLimit: at most this many rows in resTbl, in batches of any layout.
MaxRows == 4

Consumers == {"c1", "c2"}
NoOne == "none"
Vals == 0..Top

(***************************************************************************)
(* Errors.  nil is NoErr.  A panic value travels like an error until a     *)
(* deferred recover() turns it into one, or the call ends with it.         *)
(***************************************************************************)
NoErr == [kind |-> "nil", arg |-> 0, panic |-> FALSE]
Err(k, a) == [kind |-> k, arg |-> a, panic |-> FALSE]
Panic(k) == [kind |-> k, arg |-> 0, panic |-> TRUE]
\* errors.Errorf("%v", r)
Errorf(r) == [r EXCEPT !.panic = FALSE]
\* ErrCTEMaxRecursionDepth.GenWithStackByArgs(p.curIter)
ErrCTEMaxRecursionDepth(iter) == Err("ErrCTEMaxRecursionDepth", iter)

(***************************************************************************)
(* chunk.Chunk: physical rows plus an optional selection list.             *)
(***************************************************************************)
NewChunk(data) == [data |-> data, sel |-> <<>>, hasSel |-> FALSE]
NumRows(chk) == IF chk.hasSel THEN Len(chk.sel) ELSE Len(chk.data)
GetRow(chk, i) ==
    IF chk.hasSel THEN chk.data[chk.sel[i + 1] + 1] ELSE chk.data[i + 1]
SetSel(chk, sel) == [chk EXCEPT !.sel = sel, !.hasSel = TRUE]
\* The selected rows only, as a chunk without selection list.
CopyConstructSel(chk) ==
    NewChunk([j \in 1..NumRows(chk) |-> GetRow(chk, j - 1)])
\* req.Append(chk, begin, end): rows [begin, end) of chk.
AppendRange(chk, begin, end) ==
    NewChunk([j \in 1..(end - begin) |-> GetRow(chk, begin + j - 1)])
EmptyChunk == NewChunk(<<>>)

RECURSIVE Flatten(_)
Flatten(chks) ==
    IF chks = <<>> THEN <<>>
    ELSE CopyConstructSel(Head(chks)).data \o Flatten(Tail(chks))

(***************************************************************************)
(* cteutil.Storage.                                                        *)
(***************************************************************************)
NewStorage ==
    [chks |-> <<>>, done |-> FALSE, err |-> NoErr, iter |-> 0,
     isNil |-> FALSE, valid |-> TRUE]
NilStorage == [NewStorage EXCEPT !.isNil = TRUE, !.valid = FALSE]
StNumChunks(tbl) == Len(tbl.chks)
StRows(tbl) == Flatten(tbl.chks)
StNumRows(tbl) == Len(StRows(tbl))
\* Add keeps no empty chunk.
StAdd(tbl, chk) ==
    IF NumRows(chk) = 0 THEN tbl ELSE [tbl EXCEPT !.chks = Append(@, chk)]
StReopen(tbl) ==
    [tbl EXCEPT !.chks = <<>>, !.done = FALSE, !.err = NoErr, !.iter = 0]
StSetIter(tbl, n) == [tbl EXCEPT !.iter = n]
\* GetRow(ptr): the row, or an error when ptr designates no stored row.
StHasRow(tbl, ptr) ==
    /\ ptr.ChkIdx < Len(tbl.chks)
    /\ ptr.RowIdx < NumRows(tbl.chks[ptr.ChkIdx + 1])
StGetRow(tbl, ptr) == GetRow(tbl.chks[ptr.ChkIdx + 1], ptr.RowIdx)

(***************************************************************************)
(* baseHashTable: hash key -> row pointers, the latest entry first.        *)
(***************************************************************************)
\* Hash values: the moduli of the model are Top + 3 at most.
HashKeys == 0..(Top + 2)
newConcurrentMapHashTable ==
    [isNil |-> FALSE, m |-> [k \in HashKeys |-> <<>>]]
NilHashTable == [isNil |-> TRUE, m |-> [k \in HashKeys |-> <<>>]]
HashGet(hashTbl, key) == hashTbl.m[key]
HashPut(hashTbl, key, ptr) ==
    [hashTbl EXCEPT !.m[key] = <<ptr>> \o @]
RowPtr(chkIdx, rowIdx) == [ChkIdx |-> chkIdx, RowIdx |-> rowIdx]

\* hashVals[i].Sum64(): the 64-bit hash of a row.  The modulus is the
\* session's; a modulus not above Top forces collisions.
Sum64(ctx, row) == row % ctx.hashMod

(***************************************************************************)
(* The deduplication engine (cteProducer.deduplicate and its helpers).     *)
(***************************************************************************)
\* A nil *chunk.Chunk (checkHasDup's curChk when probing the storage).
NilChunk == [data |-> <<>>, sel |-> <<-1>>, hasSel |-> FALSE]

\* codec.EqualChunkRow over keyColIdx = all columns.
EqualChunkRow(row, matchedRow) == row = matchedRow

\* computeChunkHash: the sel to read the hash values with.
computeChunkHash(chk) ==
    IF chk.hasSel THEN chk.sel ELSE [j \in 1..NumRows(chk) |-> j - 1]

\* The loop of checkHasDup over the pointers of one hash bucket.
RECURSIVE ProbePtrs(_, _, _, _)
ProbePtrs(ptrs, row, curChk, storage) ==
    IF ptrs = <<>> THEN [hasDup |-> FALSE, err |-> NoErr]
    ELSE LET ptr == Head(ptrs) IN
         IF curChk # NilChunk
         THEN IF EqualChunkRow(row, GetRow(curChk, ptr.RowIdx))
              THEN [hasDup |-> TRUE, err |-> NoErr]
              ELSE ProbePtrs(Tail(ptrs), row, curChk, storage)
         ELSE IF ~StHasRow(storage, ptr)
              THEN [hasDup |-> FALSE,
                    err |-> Err("GetRow: index out of range", ptr.ChkIdx)]
              ELSE IF EqualChunkRow(row, StGetRow(storage, ptr))
                   THEN [hasDup |-> TRUE, err |-> NoErr]
                   ELSE ProbePtrs(Tail(ptrs), row, curChk, storage)

\* A checkHasDup that finds no duplicate.
checkHasDupNever(probeKey, row, curChk, storage, hashTbl) ==
    [hasDup |-> FALSE, err |-> NoErr]
checkHasDup(probeKey, row, curChk, storage, hashTbl) ==
    ProbePtrs(HashGet(hashTbl, probeKey), row, curChk, storage)

\* Step 2 of deduplicate: rows duplicated inside the incoming chunk.
RECURSIVE FilterInChk(_, _, _, _, _, _)
FilterInChk(ctx, chk, selOri, i, selChk, chkHashTbl) ==
    IF i >= NumRows(chk) THEN selChk
    ELSE LET key == Sum64(ctx, chk.data[selOri[i + 1] + 1])
             row == GetRow(chk, i)
             res == checkHasDup(key, row, chk, NewStorage, chkHashTbl)
         IN  IF res.hasDup
             THEN FilterInChk(ctx, chk, selOri, i + 1, selChk, chkHashTbl)
             ELSE FilterInChk(ctx, chk, selOri, i + 1,
                              Append(selChk, selOri[i + 1]),
                              HashPut(chkHashTbl, key, RowPtr(0, i)))

\* Step 3 of deduplicate: rows duplicated in the storage.  chk carries selChk.
RECURSIVE FilterInStorage(_, _, _, _, _, _, _)
FilterInStorage(ctx, chk, chkIdx, storage, i, selStorage, hashTbl) ==
    IF i >= Len(chk.sel)
    THEN [sel |-> selStorage, hashTbl |-> hashTbl, err |-> NoErr]
    ELSE LET key == Sum64(ctx, chk.data[chk.sel[i + 1] + 1])
             row == GetRow(chk, i)
             res == checkHasDup(key, row, NilChunk, storage, hashTbl)
         IN  IF res.err # NoErr
             THEN [sel |-> selStorage, hashTbl |-> hashTbl, err |-> res.err]
             ELSE IF res.hasDup
             THEN FilterInStorage(ctx, chk, chkIdx, storage, i + 1,
                                  selStorage, hashTbl)
             ELSE FilterInStorage(ctx, chk, chkIdx, storage, i + 1,
                                  Append(selStorage, chk.sel[i + 1]),
                                  HashPut(hashTbl, key,
                                          RowPtr(chkIdx, Len(selStorage))))

\* deduplicate after step 3 (r is what step 3 returned).
DedupResult(chk, r) ==
    [chk |-> SetSel(chk, r.sel), hashTbl |-> r.hashTbl, err |-> r.err]

\* deduplicate: the chunk with its selection list narrowed to the rows that
\* are new, and the hash table with those rows added.
deduplicate(ctx, chk, storage, hashTbl) ==
    IF NumRows(chk) = 0
    THEN [chk |-> chk, hashTbl |-> hashTbl, err |-> NoErr]
    ELSE IF hashTbl.isNil
    THEN [chk |-> chk, hashTbl |-> hashTbl,
          err |-> Panic("nil pointer dereference")]
    ELSE DedupResult(chk,
             FilterInStorage(ctx,
                 SetSel(chk, FilterInChk(ctx, chk, computeChunkHash(chk), 0,
                                         <<>>, newConcurrentMapHashTable)),
                 StNumChunks(storage), storage, 0, <<>>, hashTbl))

\* tryDedupAndAdd: on an error nothing is added (the hash table keeps what
\* deduplicate had put before failing).  d is what deduplicate returned.
DedupAdded(chk, storage, d) ==
    IF d.err # NoErr
    THEN [chk |-> chk, storage |-> storage, hashTbl |-> d.hashTbl,
          err |-> d.err]
    ELSE [chk |-> d.chk, storage |-> StAdd(storage, d.chk),
          hashTbl |-> d.hashTbl, err |-> NoErr]

tryDedupAndAdd(ctx, isDistinct, chk, storage, hashTbl) ==
    IF isDistinct
    THEN DedupAdded(chk, storage, deduplicate(ctx, chk, storage, hashTbl))
    ELSE [chk |-> chk, storage |-> StAdd(storage, chk), hashTbl |-> hashTbl,
          err |-> NoErr]

(***************************************************************************)
(* The sub-plans (seedExec, recursiveExec).  The seed sub-plan yields the  *)
(* batches of its definition for the current correlated value; the         *)
(* recursive sub-plan reads iterInTbl batch by batch (CTETableReaderExec)  *)
(* and yields the image of each batch under the recursive step, skipping   *)
(* the batches whose image is empty.                                       *)
(***************************************************************************)
\* input is what the sub-plan read of its input table in its latest Open
\* (some executors read iterInTbl in Open()).
NoInput == [iter |-> 0, chks |-> <<>>]
NilExec ==
    [isNil |-> TRUE, open |-> FALSE, pos |-> 0, def |-> "nil", given |-> <<>>,
     input |-> NoInput]
NewExec(def, given) ==
    [isNil |-> FALSE, open |-> FALSE, pos |-> 0, def |-> def, given |-> given,
     input |-> NoInput]
ExecOpen(exec) == [exec EXCEPT !.open = TRUE, !.pos = 0]
\* Open of the recursive sub-plan, which reads tbl (iterInTbl).
ExecOpenOn(exec, tbl) ==
    [ExecOpen(exec) EXCEPT !.input = [iter |-> tbl.iter, chks |-> tbl.chks]]
\* Close releases what Open read.
ExecClose(exec) == [exec EXCEPT !.open = FALSE, !.input = NoInput]

SeedData(exec, cor) ==
    CASE exec.def = "dup"     -> IF cor = 0 THEN << <<1, 1>>, <<2>> >>
                                 ELSE << <<2>> >>
      [] exec.def = "example" -> << <<1, 2, 3>> >>
      [] exec.def = "given"   -> exec.given
      [] OTHER                -> << >>

RecStepRow(def, x) ==
    CASE def = "incr"    -> IF x < Top THEN <<x + 1>> ELSE << >>
      [] def = "cycle"   -> <<(x + 1) % (Top + 1)>>
      [] def = "example" -> IF x < 5 THEN <<x + 1>> ELSE << >>
      [] OTHER           -> << >>

RECURSIVE RecStepRows(_, _)
RecStepRows(def, rows) ==
    IF rows = <<>> THEN <<>>
    ELSE RecStepRow(def, Head(rows)) \o RecStepRows(def, Tail(rows))

\* First batch of iterInTbl at index >= pos whose image is not empty.
RECURSIVE RecScan(_, _, _)
RecScan(def, chks, pos) ==
    IF pos >= Len(chks) THEN [chk |-> EmptyChunk, pos |-> pos]
    ELSE LET img == RecStepRows(def, CopyConstructSel(chks[pos + 1]).data)
         IN  IF img # <<>> THEN [chk |-> NewChunk(img), pos |-> pos + 1]
             ELSE RecScan(def, chks, pos + 1)

\* Next(ctx, p.seedExec, chk) with its outcome chosen by the caller:
\* "ok" the sub-plan's next batch, "empty" no rows, "err" a failure.
SeedNext(pp, outcome) ==
    LET data == SeedData(pp.seedExec, pp.corCols[1])
        pos  == pp.seedExec.pos
    IN  CASE outcome = "err" ->
               [chk |-> EmptyChunk, err |-> Err("seedExec.Next", 0), p |-> pp]
          [] outcome = "panic" ->
               [chk |-> EmptyChunk, err |-> Panic("panic in seedExec.Next"),
                p |-> pp]
          [] outcome = "ok" /\ pos < Len(data) ->
               [chk |-> NewChunk(data[pos + 1]), err |-> NoErr,
                p |-> [pp EXCEPT !.seedExec.pos = pos + 1]]
          [] OTHER -> [chk |-> EmptyChunk, err |-> NoErr, p |-> pp]

RecursiveNext(pp, outcome) ==
    LET r == RecScan(pp.recursiveExec.def, pp.iterInTbl.chks,
                     pp.recursiveExec.pos)
    IN  CASE outcome = "err" ->
               [chk |-> EmptyChunk, err |-> Err("recursiveExec.Next", 0),
                p |-> pp]
          [] outcome = "panic" ->
               [chk |-> EmptyChunk,
                err |-> Panic("panic in recursiveExec.Next"), p |-> pp]
          [] outcome = "ok" ->
               [chk |-> r.chk, err |-> NoErr,
                p |-> [pp EXCEPT !.recursiveExec.pos = r.pos]]
          [] OTHER -> [chk |-> EmptyChunk, err |-> NoErr, p |-> pp]

\* What a pull can do: a sub-plan that is open yields its batch, fails or
\* panics; a pull from a sub-plan that is not open is outside the executor
\* protocol and may also yield nothing.
PullOutcomes(exec) ==
    IF exec.open THEN {"ok", "err", "panic"}
    ELSE {"ok", "err", "panic", "empty"}

(***************************************************************************)
(* cteProducer.                                                            *)
(***************************************************************************)
\* getCorColHashCode: codec.HashCode encodes the value behind a type flag.
getCorColHashCode(data) == <<3, data>>

NewProducer(cfg) ==
    [opened |-> FALSE, produced |-> FALSE, closed |-> FALSE,
     openErr |-> NoErr,
     ctx |-> [CTEMaxRecursionDepth |-> cfg.depth, hashMod |-> cfg.hashMod],
     seedExec |-> IF cfg.seed = "nil" THEN NilExec
                  ELSE NewExec(cfg.seed, cfg.given),
     recursiveExec |-> IF cfg.rec = "nil" THEN NilExec
                       ELSE NewExec(cfg.rec, <<>>),
     resTbl |-> NewStorage, iterInTbl |-> NewStorage,
     iterOutTbl |-> NilStorage,
     hashTbl |-> NilHashTable,
     isDistinct |-> cfg.isDistinct, curIter |-> 0,
     hasLimit |-> cfg.hasLimit, limitBeg |-> cfg.limitBeg,
     limitEnd |-> cfg.limitEnd,
     corCols |-> <<cfg.cor>>,
     corColHashCodes |-> <<getCorColHashCode(cfg.cor)>>]

\* A limitDone that asks for one row more than limitEnd.
limitDoneLate(pp, tbl) == pp.hasLimit /\ StNumRows(tbl) > pp.limitEnd
\* limitDone
limitDone(pp, tbl) == pp.hasLimit /\ StNumRows(tbl) >= pp.limitEnd

StSetDone(tbl) == [tbl EXCEPT !.done = TRUE]
StSetError(tbl, err) == [tbl EXCEPT !.err = err]
\* SwapData exchanges the underlying batches of the two storages.
StSwapData(tbl, other) ==
    [tbl |-> [tbl EXCEPT !.chks = other.chks],
     other |-> [other EXCEPT !.chks = tbl.chks]]
\* OpenAndRef on a new storage; DerefAndClose releases it.
StOpenAndRef(tbl) == [tbl EXCEPT !.isNil = FALSE, !.valid = TRUE]
StDerefAndClose(tbl) == [tbl EXCEPT !.valid = FALSE, !.chks = <<>>]

RECURSIVE AddAll(_, _)
AddAll(tbl, chks) ==
    IF chks = <<>> THEN tbl ELSE AddAll(StAdd(tbl, Head(chks)), Tail(chks))

\* openProducer.  outcome says which of its fallible calls fails, if any.
OpenOutcomes == {"ok", "seedOpenErr", "recursiveOpenErr", "iterOutErr"}
openProducerBody(pp, outcome) ==
    IF pp.seedExec.isNil
    THEN [p |-> pp, err |-> Err("seedExec for CTEExec is nil", 0)]
    ELSE IF outcome = "seedOpenErr"
    THEN [p |-> pp, err |-> Err("seedExec.Open", 0)]
    ELSE
    LET p1 == [pp EXCEPT !.seedExec = ExecOpen(@)]
        p2 == [p1 EXCEPT !.recursiveExec = ExecOpenOn(@, pp.iterInTbl),
                         !.iterOutTbl = StOpenAndRef(NewStorage)]
        p3 == IF pp.recursiveExec.isNil THEN p1 ELSE p2
        p4 == IF pp.isDistinct
              THEN [p3 EXCEPT !.hashTbl = newConcurrentMapHashTable]
              ELSE p3
    IN  IF ~pp.recursiveExec.isNil /\ outcome = "recursiveOpenErr"
        THEN [p |-> p1, err |-> Err("recursiveExec.Open", 0)]
        ELSE IF ~pp.recursiveExec.isNil /\ outcome = "iterOutErr"
        THEN [p |-> [p2 EXCEPT !.iterOutTbl.valid = FALSE],
              err |-> Err("iterOutTbl.OpenAndRef", 0)]
        ELSE [p |-> p4, err |-> NoErr]

openProducer(pp, outcome) ==
    LET r == openProducerBody(pp, outcome) IN
    [p |-> [r.p EXCEPT !.openErr = r.err, !.opened = (r.err = NoErr)],
     err |-> r.err]

\* The deferred recover() of computeSeedPart and computeRecursivePart: a
\* panic raised in the phase becomes the error that the phase returns.
\* Before it, the phase without its recover(): the panic goes on.
recoverNothing(err) == err
recover(err) == IF err.panic THEN Errorf(err) ELSE err

\* A failing produce() that returns the error without resTbl.SetError.
ProduceFailUnlatched(pp, err) ==
    [p |-> pp, chks |-> <<>>, phase |-> "idle", err |-> err]
\* produce() ends: the error is latched on resTbl, or resTbl is set done.
ProduceFail(pp, err) ==
    [p |-> [pp EXCEPT !.resTbl = StSetError(@, err)], chks |-> <<>>,
     phase |-> "idle", err |-> err]
\* A produce() that returns nil without resTbl.SetDone.
ProduceDoneUnmarked(pp) ==
    [p |-> pp, chks |-> <<>>, phase |-> "idle", err |-> NoErr]
ProduceDone(pp) ==
    [p |-> [pp EXCEPT !.resTbl = StSetDone(@)], chks |-> <<>>,
     phase |-> "idle", err |-> NoErr]
ProduceGoOn(pp, chks, phase) ==
    [p |-> pp, chks |-> chks, phase |-> phase, err |-> NoErr]

\* computeSeedPart before its loop.
computeSeedBegin(pp) ==
    [pp EXCEPT !.curIter = 0, !.iterInTbl = StSetIter(@, 0)]

\* A computeSeedPart that does not copy the seed's rows into resTbl.
computeSeedEndNoResult(pp, chks) ==
    [pp EXCEPT !.curIter = pp.curIter + 1,
               !.iterInTbl = StSetIter(@, pp.curIter + 1)]
\* computeSeedPart after its loop.
computeSeedEnd(pp, chks) ==
    [pp EXCEPT !.resTbl = AddAll(@, chks),
               !.curIter = pp.curIter + 1,
               !.iterInTbl = StSetIter(@, pp.curIter + 1)]

\* computeRecursivePart before its loop.
computeRecursiveBegin(pp) ==
    IF pp.recursiveExec.isNil \/ StNumChunks(pp.iterInTbl) = 0
    THEN ProduceDone(pp)
    ELSE IF pp.curIter > pp.ctx.CTEMaxRecursionDepth
    THEN ProduceFail(pp, ErrCTEMaxRecursionDepth(pp.curIter))
    ELSE IF limitDone(pp, pp.resTbl)
    THEN ProduceDone(pp)
    ELSE ProduceGoOn(pp, <<>>, "rec")

\* computeSeedPart's loop after tryDedupAndAdd (d is what it returned).
SeedBatchAdded(pp, chks, d) ==
    IF d.err # NoErr
    THEN ProduceFail([pp EXCEPT !.hashTbl = d.hashTbl], recover(d.err))
    ELSE ProduceGoOn([pp EXCEPT !.iterInTbl = d.storage,
                                !.hashTbl = d.hashTbl],
                     Append(chks, d.chk), "seed")

\* computeSeedPart's loop after the pull from seedExec (r is what the pull
\* returned); an empty batch ends the loop.
SeedPulled(chks, r) ==
    IF r.err # NoErr THEN ProduceFail(r.p, recover(r.err))
    ELSE IF NumRows(r.chk) = 0
    THEN computeRecursiveBegin(computeSeedEnd(r.p, chks))
    ELSE SeedBatchAdded(r.p, chks,
             tryDedupAndAdd(r.p.ctx, r.p.isDistinct, r.chk, r.p.iterInTbl,
                            r.p.hashTbl))

\* One turn of computeSeedPart's loop (and, when the loop ends, the rest of
\* computeSeedPart and the start of computeRecursivePart).
computeSeedStep(pp, chks, outcome) ==
    IF limitDone(pp, pp.iterInTbl)
    THEN computeRecursiveBegin(computeSeedEnd(pp, chks))
    ELSE SeedPulled(chks, SeedNext(pp, outcome))

\* The first loop of setupTblsForNewIteration: iterOutTbl's batches, from
\* index i on, into resTbl (d is what tryDedupAndAdd returned for batch i).
RECURSIVE SetupResTbl(_, _, _)
SetupResTblAdded(pp, i, chks, d) ==
    IF d.err # NoErr
    THEN [p |-> [pp EXCEPT !.hashTbl = d.hashTbl], chks |-> chks,
          err |-> d.err]
    ELSE SetupResTbl([pp EXCEPT !.resTbl = d.storage, !.hashTbl = d.hashTbl],
                     i + 1, Append(chks, d.chk))
SetupResTbl(pp, i, chks) ==
    IF i >= StNumChunks(pp.iterOutTbl)
    THEN [p |-> pp, chks |-> chks, err |-> NoErr]
    ELSE SetupResTblAdded(pp, i, chks,
             tryDedupAndAdd(pp.ctx, pp.isDistinct, pp.iterOutTbl.chks[i + 1],
                            pp.resTbl, pp.hashTbl))

\* A rotation that adds iterOutTbl's batches to the previous input.
SetupIterInTblKeepsInput(pp, chks) ==
    [pp EXCEPT !.iterInTbl = AddAll(@, IF pp.isDistinct THEN chks
                                       ELSE pp.iterOutTbl.chks),
               !.iterOutTbl = StReopen(@)]
\* The rest of setupTblsForNewIteration: the new iterInTbl (a copy of the
\* deduplicated batches, or iterOutTbl's data swapped in) and iterOutTbl
\* cleared.
SetupIterInTbl(pp, chks) ==
    IF pp.isDistinct
    THEN [pp EXCEPT !.iterInTbl = AddAll(StReopen(@), chks),
                    !.iterOutTbl = StReopen(@)]
    ELSE [pp EXCEPT
            !.iterInTbl = StSwapData(StReopen(@), pp.iterOutTbl).tbl,
            !.iterOutTbl =
                StReopen(StSwapData(StReopen(pp.iterInTbl), @).other)]

SetupAfterResTbl(r) ==
    IF r.err # NoErr THEN [p |-> r.p, err |-> r.err]
    ELSE [p |-> SetupIterInTbl(r.p, r.chks), err |-> NoErr]

setupTblsForNewIteration(pp) ==
    IF ~pp.iterOutTbl.valid
    THEN [p |-> pp, err |-> Err("Storage is closed", 0)]
    ELSE SetupAfterResTbl(SetupResTbl(pp, 0, <<>>))

\* The next iteration begun without the check of curIter against
\* CTEMaxRecursionDepth.
RecursiveNextIterUnguarded(pp, reopen) ==
    IF reopen = "closeErr"
    THEN ProduceFail([pp EXCEPT !.recursiveExec = ExecClose(@)],
                     Err("recursiveExec.Close", 0))
    ELSE IF reopen = "openErr"
    THEN ProduceFail([pp EXCEPT !.recursiveExec = ExecClose(@)],
                     Err("recursiveExec.Open", 0))
    ELSE ProduceGoOn([pp EXCEPT !.recursiveExec = ExecOpenOn(@, pp.iterInTbl)],
                     <<>>, "rec")

\* computeRecursivePart's loop after a rotation that leaves work to do: the
\* next iteration begins (pp has the incremented curIter).  reopen says
\* whether the Close and Open of the recursive sub-plan succeed.
ReopenOutcomes == {"ok", "closeErr", "openErr"}
RecursiveNextIter(pp, reopen) ==
    IF pp.curIter > pp.ctx.CTEMaxRecursionDepth
    THEN ProduceFail(pp, ErrCTEMaxRecursionDepth(pp.curIter))
    ELSE IF reopen = "closeErr"
    THEN ProduceFail([pp EXCEPT !.recursiveExec = ExecClose(@)],
                     Err("recursiveExec.Close", 0))
    ELSE IF reopen = "openErr"
    THEN ProduceFail([pp EXCEPT !.recursiveExec = ExecClose(@)],
                     Err("recursiveExec.Open", 0))
    ELSE ProduceGoOn([pp EXCEPT !.recursiveExec = ExecOpenOn(@, pp.iterInTbl)],
                     <<>>, "rec")

\* A loop that closes and reopens the recursive sub-plan before SetIter
\* has put the new iteration number on iterInTbl.
RecursiveRotatedOpensEarly(s, reopen) ==
    IF s.err # NoErr THEN ProduceFail(s.p, recover(s.err))
    ELSE IF limitDone(s.p, s.p.resTbl) THEN ProduceDone(s.p)
    ELSE IF StNumChunks(s.p.iterInTbl) = 0 THEN ProduceDone(s.p)
    ELSE LET r == RecursiveNextIter([s.p EXCEPT !.curIter = @ + 1], reopen)
         IN  [r EXCEPT !.p.iterInTbl = StSetIter(@, s.p.curIter + 1)]
\* computeRecursivePart's loop after setupTblsForNewIteration (s is what it
\* returned).
RecursiveRotated(s, reopen) ==
    IF s.err # NoErr THEN ProduceFail(s.p, recover(s.err))
    ELSE IF limitDone(s.p, s.p.resTbl) THEN ProduceDone(s.p)
    ELSE IF StNumChunks(s.p.iterInTbl) = 0 THEN ProduceDone(s.p)
    ELSE RecursiveNextIter(
             [s.p EXCEPT !.curIter = @ + 1,
                         !.iterInTbl = StSetIter(@, s.p.curIter + 1)],
             reopen)

\* computeRecursivePart's loop after the pull from recursiveExec.
RecursivePulled(r, reopen) ==
    IF r.err # NoErr THEN ProduceFail(r.p, recover(r.err))
    ELSE IF NumRows(r.chk) # 0
    THEN IF ~r.p.iterOutTbl.valid
         THEN ProduceFail(r.p, Err("Storage is closed", 0))
         ELSE ProduceGoOn([r.p EXCEPT !.iterOutTbl = StAdd(@, r.chk)],
                          <<>>, "rec")
    ELSE RecursiveRotated(setupTblsForNewIteration(r.p), reopen)

\* One turn of computeRecursivePart's loop.
computeRecursiveStep(pp, outcome, reopen) ==
    RecursivePulled(RecursiveNext(pp, outcome), reopen)

\* A reopenTbls that leaves resTbl as it is.
reopenTblsKeepsResult(pp) ==
    [pp EXCEPT !.hashTbl = IF pp.isDistinct THEN newConcurrentMapHashTable
                           ELSE @,
               !.iterInTbl = StReopen(@)]

\* reset and reopenTbls.
reset(pp) ==
    [pp EXCEPT !.curIter = 0, !.hashTbl = NilHashTable, !.opened = FALSE,
               !.openErr = NoErr, !.produced = FALSE, !.closed = FALSE]
reopenTbls(pp) ==
    [pp EXCEPT !.hashTbl = IF pp.isDistinct THEN newConcurrentMapHashTable
                           ELSE @,
               !.resTbl = StReopen(@), !.iterInTbl = StReopen(@)]

\* checkAndUpdateCorColHashCode
corColChanged(pp) ==
    \E i \in 1..Len(pp.corCols) :
        getCorColHashCode(pp.corCols[i]) # pp.corColHashCodes[i]
checkAndUpdateCorColHashCode(pp) ==
    [changed |-> corColChanged(pp),
     p |-> [pp EXCEPT !.corColHashCodes =
                [i \in 1..Len(pp.corCols) |->
                    getCorColHashCode(pp.corCols[i])]]]

\* A setFirstErr that returns the latest error.
setLastErr(firstErr, newErr) ==
    IF newErr # NoErr THEN newErr ELSE firstErr
setFirstErr(firstErr, newErr) ==
    IF newErr # NoErr /\ firstErr = NoErr THEN newErr ELSE firstErr

\* closeProducer.  o says which of its three fallible calls fail: the Close
\* of the seed sub-plan, the Close of the recursive sub-plan, and
\* iterOutTbl.DerefAndClose.
ErrIf(cond, k) == IF cond THEN Err(k, 0) ELSE NoErr
CloseOutcomes == [seedErr : BOOLEAN, recErr : BOOLEAN, derefErr : BOOLEAN]
\* A closeProducer that forgets the seed sub-plan.
closeProducerLeavesSeed(pp, o) ==
    LET e2 == setFirstErr(NoErr, ErrIf(o.recErr, "recursiveExec.Close"))
        e3 == IF pp.iterOutTbl.isNil THEN e2
              ELSE setFirstErr(e2, ErrIf(o.derefErr,
                                         "iterOutTbl.DerefAndClose"))
        p2 == [pp EXCEPT !.recursiveExec = ExecClose(@),
                         !.iterOutTbl = IF @.isNil THEN @
                                        ELSE StDerefAndClose(@)]
    IN  IF pp.recursiveExec.isNil
        THEN [p |-> [pp EXCEPT !.closed = TRUE], err |-> NoErr]
        ELSE [p |-> [p2 EXCEPT !.closed = TRUE], err |-> e3]
closeProducer(pp, o) ==
    LET e1 == setFirstErr(NoErr, ErrIf(o.seedErr, "seedExec.Close"))
        e2 == setFirstErr(e1, ErrIf(o.recErr, "recursiveExec.Close"))
        e3 == IF pp.iterOutTbl.isNil THEN e2
              ELSE setFirstErr(e2, ErrIf(o.derefErr,
                                         "iterOutTbl.DerefAndClose"))
        p1 == [pp EXCEPT !.seedExec = ExecClose(@)]
        p2 == [p1 EXCEPT !.recursiveExec = ExecClose(@),
                         !.iterOutTbl = IF @.isNil THEN @
                                        ELSE StDerefAndClose(@)]
    IN  IF pp.recursiveExec.isNil
        THEN [p |-> [p1 EXCEPT !.closed = TRUE], err |-> e1]
        ELSE [p |-> [p2 EXCEPT !.closed = TRUE], err |-> e3]

(***************************************************************************)
(* CTEExec: retrieval from resTbl.                                         *)
(***************************************************************************)
\* CTEExec.reset
resetExec(ce) == [ce EXCEPT !.chkIdx = 0, !.cursor = 0, !.meetFirstBatch = FALSE]
NewCTEExec == [chkIdx |-> 0, cursor |-> 0, meetFirstBatch |-> FALSE]

\* The first loop of nextChunkLimit.  returned says that the loop left
\* nextChunkLimit by its return, with req filled.
RECURSIVE LimitFirstBatch(_, _)
LimitFirstBatch(pp, ce) ==
    IF ~(ce.chkIdx < StNumChunks(pp.resTbl))
    THEN [e |-> ce, req |-> EmptyChunk, returned |-> FALSE]
    ELSE
    LET res       == pp.resTbl.chks[ce.chkIdx + 1]
        numRows   == NumRows(res)
        newCursor == ce.cursor + numRows
        begInChk  == pp.limitBeg - ce.cursor
        endInChk  == IF newCursor > pp.limitEnd
                     THEN pp.limitEnd - ce.cursor ELSE numRows
        met       == [ce EXCEPT !.chkIdx = @ + 1, !.meetFirstBatch = TRUE,
                                !.cursor = @ + endInChk]
    IN  IF newCursor >= pp.limitBeg
        THEN IF begInChk = endInChk
             THEN [e |-> met, req |-> EmptyChunk, returned |-> FALSE]
             ELSE [e |-> met,
                   req |-> AppendRange(CopyConstructSel(res), begInChk,
                                       endInChk),
                   returned |-> TRUE]
        ELSE LimitFirstBatch(pp, [ce EXCEPT !.chkIdx = @ + 1,
                                            !.cursor = newCursor])

\* The rest of nextChunkLimit without the cut at limitEnd.
LimitNextBatchWhole(pp, ce) ==
    IF ce.chkIdx < StNumChunks(pp.resTbl) /\ ce.cursor < pp.limitEnd
    THEN [e |-> [ce EXCEPT !.chkIdx = @ + 1,
                           !.cursor = @ + NumRows(pp.resTbl.chks[ce.chkIdx + 1])],
          req |-> CopyConstructSel(pp.resTbl.chks[ce.chkIdx + 1])]
    ELSE [e |-> ce, req |-> EmptyChunk]

\* The rest of nextChunkLimit.
LimitNextBatch(pp, ce) ==
    IF ce.chkIdx < StNumChunks(pp.resTbl) /\ ce.cursor < pp.limitEnd
    THEN LET res     == pp.resTbl.chks[ce.chkIdx + 1]
             numRows == NumRows(res)
             cut     == pp.limitEnd - ce.cursor
         IN  IF ce.cursor + numRows > pp.limitEnd
             THEN [e |-> [ce EXCEPT !.chkIdx = @ + 1, !.cursor = @ + cut],
                   req |-> AppendRange(CopyConstructSel(res), 0, cut)]
             ELSE [e |-> [ce EXCEPT !.chkIdx = @ + 1, !.cursor = @ + numRows],
                   req |-> CopyConstructSel(res)]
    ELSE [e |-> ce, req |-> EmptyChunk]

nextChunkLimit(pp, ce) ==
    LET f == IF ce.meetFirstBatch
             THEN [e |-> ce, req |-> EmptyChunk, returned |-> FALSE]
             ELSE LimitFirstBatch(pp, ce)
    IN  IF f.returned THEN [e |-> f.e, req |-> f.req]
        ELSE LimitNextBatch(pp, f.e)

getChunk(pp, ce) ==
    IF pp.hasLimit THEN nextChunkLimit(pp, ce)
    ELSE IF ce.chkIdx < StNumChunks(pp.resTbl)
    THEN [e |-> [ce EXCEPT !.chkIdx = @ + 1],
          req |-> CopyConstructSel(pp.resTbl.chks[ce.chkIdx + 1])]
    ELSE [e |-> ce, req |-> EmptyChunk]

(***************************************************************************)
(* The state machine: two CTEExec cursors sharing one cteProducer.         *)
(***************************************************************************)
Depths == {1, Top}
CorVals == {0, 1}

Config(isDistinct, rec, depth, hasLimit, limitBeg, limitEnd) ==
    [isDistinct |-> isDistinct, seed |-> "dup", rec |-> rec, depth |-> depth,
     hasLimit |-> hasLimit, limitBeg |-> limitBeg, limitEnd |-> limitEnd,
     hashMod |-> Top + 1, cor |-> 0, given |-> <<>>]

Configs ==
    {Config(d, r, n, FALSE, 0, 0) :
        d \in BOOLEAN, r \in {"nil", "incr", "cycle"}, n \in Depths}
    \cup {Config(d, "cycle", Top, TRUE, 1, 4) : d \in BOOLEAN}
    \cup {Config(FALSE, "cycle", n, TRUE, 0, 2) : n \in {0, 1}}
    \cup {Config(TRUE, "incr", 0, FALSE, 0, 0)}
    \cup {[Config(FALSE, "incr", Top, FALSE, 0, 0) EXCEPT !.seed = "nil"]}

Call(op, c, err, req) == [op |-> op, c |-> c, err |-> err, req |-> req]
Idle == [phase |-> "idle", chks |-> <<>>]

\* History of the evaluation under way (it starts at construction and at
\* every reset): rotations completed, rows pulled from the sub-plans, calls
\* of resTbl.SetDone, the batch of the latest pull, whether a sub-plan was
\* pulled while it was not open, and whether a pull panicked.
NoHist == [rot |-> 0, pulled |-> 0, dones |-> 0, batch |-> EmptyChunk,
           badPull |-> FALSE, panic |-> FALSE]
HistPull(hh, exec, chk) ==
    [hh EXCEPT !.pulled = @ + NumRows(chk), !.batch = chk,
               !.badPull = @ \/ ~exec.open]
HistPanic(hh, r) == [hh EXCEPT !.panic = @ \/ r.err.panic]
\* r is what the pull from recursiveExec returned: an empty batch makes
\* computeRecursivePart rotate the tables.
Rotates(r) ==
    /\ r.err = NoErr
    /\ NumRows(r.chk) = 0
    /\ setupTblsForNewIteration(r.p).err = NoErr
HistRecursive(hh, exec, r) ==
    [HistPanic(HistPull(hh, exec, r.chk), r)
        EXCEPT !.rot = IF Rotates(r) THEN @ + 1 ELSE @]
HistSeed(hh, pp, r) ==
    IF limitDone(pp, pp.iterInTbl) THEN hh
    ELSE HistPanic(HistPull(hh, pp.seedExec, r.chk), r)

\* A lock that is granted whoever holds it.
CanLockAlways == TRUE
\* resTbl.Lock() returns only when no other call holds the lock.
CanLock == lock = NoOne

InitWith(cfg) ==
    /\ p = NewProducer(cfg)
    /\ e = [c \in Consumers |-> NewCTEExec]
    /\ lock = NoOne
    /\ pc = Idle
    /\ st = [c \in Consumers |-> "init"]
    /\ out = [c \in Consumers |-> [rows |-> <<>>, eof |-> FALSE]]
    /\ last = Call("init", NoOne, NoErr, EmptyChunk)
    /\ h = NoHist

Init == \E cfg \in Configs : InitWith(cfg)

\* CTEExec.Open, the whole call.
OpenReset(pp) == reopenTbls(reset(pp))
\* An Open that resets the producer whether or not a value changed.
OpenAlwaysResets(ck) == OpenReset(ck.p)
OpenChecked(ck) == IF ck.changed THEN OpenReset(ck.p) ELSE ck.p
\* An Open that does not look at openErr and opens the producer again.
OpenProducerRetry(pp, outcome) ==
    IF ~pp.opened THEN openProducer(pp, outcome)
    ELSE [p |-> pp, err |-> NoErr]
OpenProducerIfNeeded(pp, outcome) ==
    IF pp.openErr # NoErr THEN [p |-> pp, err |-> pp.openErr]
    ELSE IF ~pp.opened THEN openProducer(pp, outcome)
    ELSE [p |-> pp, err |-> NoErr]
OpenResult(pp, outcome) ==
    OpenProducerIfNeeded(OpenChecked(checkAndUpdateCorColHashCode(pp)),
                         outcome)

OpenReturn(c, r) ==
    /\ p' = r.p
    /\ st' = [st EXCEPT ![c] = IF r.err = NoErr THEN "open" ELSE "failed"]
    /\ last' = Call("Open", c, r.err, EmptyChunk)

Open(c) ==
    /\ CanLock
    /\ st[c] \in {"init", "closed"}
    /\ \E outcome \in OpenOutcomes :
         \E r \in {OpenResult(p, outcome)} : OpenReturn(c, r)
    /\ e' = [e EXCEPT ![c] = resetExec(@)]
    /\ out' = [out EXCEPT ![c] = [rows |-> <<>>, eof |-> FALSE]]
    /\ h' = IF corColChanged(p) THEN NoHist ELSE h
    /\ UNCHANGED <<lock, pc>>

\* The end of CTEExec.Next once produce() is over: on an error Next returns
\* it, otherwise getChunk fills req.  The lock is released.
NextGot(c, g) ==
    /\ last' = Call("Next", c, NoErr, g.req)
    /\ e' = [e EXCEPT ![c] = g.e]
    /\ out' = [out EXCEPT ![c] = [rows |-> @.rows \o g.req.data,
                                  eof |-> NumRows(g.req) = 0]]

NextReturn(c, r, hh) ==
    /\ p' = r.p
    /\ lock' = NoOne
    /\ pc' = Idle
    /\ h' = hh
    /\ IF r.err # NoErr
       THEN /\ last' = Call("Next", c, r.err, EmptyChunk)
            /\ UNCHANGED <<e, out>>
       ELSE \E g \in {getChunk(r.p, e[c])} : NextGot(c, g)
    /\ UNCHANGED st

\* A Next that does not look at resTbl.Done() before it calls produce().
NextIgnoringDone(c) ==
    /\ CanLock
    /\ st[c] = "open"
    /\ IF p.resTbl.err # NoErr
       THEN NextReturn(c, [p |-> p, err |-> p.resTbl.err], h)
       ELSE /\ p' = computeSeedBegin(p)
            /\ lock' = c
            /\ pc' = [phase |-> "seed", chks |-> <<>>]
            /\ last' = Call("produce", c, NoErr, EmptyChunk)
            /\ UNCHANGED <<e, st, out, h>>

\* CTEExec.Next up to the first pull of produce(): resTbl done, resTbl in
\* error, or production started (the lock stays held while it runs).
Next(c) ==
    /\ CanLock
    /\ st[c] = "open"
    /\ IF p.resTbl.done
       THEN NextReturn(c, [p |-> p, err |-> NoErr], h)
       ELSE IF p.resTbl.err # NoErr
       THEN NextReturn(c, [p |-> p, err |-> p.resTbl.err], h)
       ELSE /\ p' = computeSeedBegin(p)
            /\ lock' = c
            /\ pc' = [phase |-> "seed", chks |-> <<>>]
            /\ last' = Call("produce", c, NoErr, EmptyChunk)
            /\ UNCHANGED <<e, st, out, h>>

\* r is what one turn of a loop of produce() came to; hh is the history
\* after the turn's pull.  When produce() is over, Next returns.
ProduceStep(c, r, hh) ==
    IF r.phase = "idle"
    THEN NextReturn(c, r, [hh EXCEPT !.dones = IF r.err = NoErr THEN @ + 1
                                                ELSE @])
    ELSE /\ p' = r.p
         /\ pc' = [phase |-> r.phase, chks |-> r.chks]
         /\ last' = Call(r.phase, c, NoErr, EmptyChunk)
         /\ h' = hh
         /\ UNCHANGED <<e, lock, st, out>>

\* One turn of the seed loop of the produce() that c's Next runs.
ProduceSeed(c) ==
    /\ lock = c
    /\ pc.phase = "seed"
    /\ \E outcome \in PullOutcomes(p.seedExec) :
         \E r \in {computeSeedStep(p, pc.chks, outcome)} :
           \E hh \in {HistSeed(h, p, SeedNext(p, outcome))} :
              ProduceStep(c, r, hh)

\* One turn of the recursive loop of the produce() that c's Next runs.
ProduceRecursive(c) ==
    /\ lock = c
    /\ pc.phase = "rec"
    /\ \E outcome \in PullOutcomes(p.recursiveExec), reopen \in ReopenOutcomes :
         \E r \in {computeRecursiveStep(p, outcome, reopen)} :
           \E hh \in {HistRecursive(h, p.recursiveExec,
                                    RecursiveNext(p, outcome))} :
              ProduceStep(c, r, hh)

\* CTEExec.Close, the whole call.  Once past the test of closed, Close may
\* panic before it reaches closeProducer (an allocation over the memory
\* quota, the failpoint of the source), and closeProducer panics on a nil
\* seedExec; otherwise closeProducer runs.
ClosePanics == BOOLEAN
\* A Close that runs closeProducer whether or not the producer is closed.
CloseProducerAlways(pp, panics, o) ==
    IF panics THEN [p |-> pp, err |-> Panic("panic in CTEExec.Close")]
    ELSE IF pp.seedExec.isNil
    THEN [p |-> pp, err |-> Panic("nil pointer dereference")]
    ELSE closeProducer(pp, o)
CloseProducerIfNeeded(pp, panics, o) ==
    IF pp.closed THEN [p |-> pp, err |-> NoErr]
    ELSE IF panics THEN [p |-> pp, err |-> Panic("panic in CTEExec.Close")]
    ELSE IF pp.seedExec.isNil
    THEN [p |-> pp, err |-> Panic("nil pointer dereference")]
    ELSE closeProducer(pp, o)

\* An Unlock() that is not deferred: a panic skips it.
UnlockAtReturn(c, err) == IF err.panic THEN c ELSE NoOne
\* defer e.producer.resTbl.Unlock(): it runs when the function returns and
\* when a panic unwinds it.
deferUnlock(c, err) == NoOne

\* A panic that leaves Close unwinds the caller too: the executor is not
\* called again ("aborted").
CloseReturn(c, r) ==
    /\ p' = r.p
    /\ lock' = deferUnlock(c, r.err)
    /\ st' = [st EXCEPT ![c] = IF r.err.panic THEN "aborted" ELSE "closed"]
    /\ last' = Call("Close", c, r.err, EmptyChunk)

Close(c) ==
    /\ CanLock
    /\ st[c] \in {"open", "failed"}
    /\ \E panics \in ClosePanics, o \in CloseOutcomes :
         \E r \in {CloseProducerIfNeeded(p, panics, o)} : CloseReturn(c, r)
    /\ UNCHANGED <<e, pc, out, h>>

\* The outer query moves to a row with another correlated value, between
\* two evaluations of the inner side.
ChangeCor ==
    /\ CanLock
    /\ \A c \in Consumers : st[c] \in {"init", "closed"}
    /\ \E v \in CorVals \ {p.corCols[1]} :
         p' = [p EXCEPT !.corCols = <<v>>]
    /\ last' = Call("ChangeCor", NoOne, NoErr, EmptyChunk)
    /\ UNCHANGED <<e, lock, pc, st, out, h>>

NextStep ==
    \/ \E c \in Consumers : Open(c)
    \/ \E c \in Consumers : Next(c)
    \/ \E c \in Consumers : ProduceSeed(c)
    \/ \E c \in Consumers : ProduceRecursive(c)
    \/ \E c \in Consumers : Close(c)
    \/ ChangeCor

Spec == Init /\ [][NextStep]_vars

\* The goroutine that runs Next keeps running: a produce() in flight takes
\* its next turn.
Produces == \E c \in Consumers : ProduceSeed(c) \/ ProduceRecursive(c)
FairSpec == Spec /\ WF_vars(Produces)

(***************************************************************************)
(* Fixpoint termination and the depth guard.                               *)
(***************************************************************************)
Producing == pc.phase # "idle"
Ended == p.resTbl.done \/ p.resTbl.err # NoErr

\* C1: the production that a consumer's Next starts terminates (every
\* recursive definition of the model stops yielding rows, is cut by the
\* depth guard or fails), leaving resTbl done or in error; resTbl.SetDone
\* is called at most once per evaluation, and while resTbl is done no Next
\* of any consumer is in the seed or the recursive phase.
C1_TerminatesDoneOnce ==
    /\ [](h.dones <= 1 /\ (p.resTbl.done => ~Producing))
    /\ (Producing ~> (~Producing /\ Ended))
\* Both consumers were served rows of a result that took two rotations.
C1_Witness ==
    /\ p.resTbl.done
    /\ h.dones = 1
    /\ h.rot >= 2
    /\ \A c \in Consumers : out[c].rows # <<>>

\* The iteration counter would exceed D: the seed part is over, D
\* rotations are over and iterInTbl still has rows for the recursive part.
DepthReached ==
    /\ p.curIter >= 1
    /\ ~p.recursiveExec.isNil
    /\ h.rot = p.ctx.CTEMaxRecursionDepth
    /\ StNumChunks(p.iterInTbl) # 0
DepthError ==
    /\ p.resTbl.err = ErrCTEMaxRecursionDepth(p.ctx.CTEMaxRecursionDepth + 1)
    /\ ~p.resTbl.done

ConfigOf(pp) ==
    [isDistinct |-> pp.isDistinct, seed |-> pp.seedExec.def,
     rec |-> pp.recursiveExec.def, depth |-> pp.ctx.CTEMaxRecursionDepth,
     hasLimit |-> pp.hasLimit, limitBeg |-> pp.limitBeg,
     limitEnd |-> pp.limitEnd, hashMod |-> pp.ctx.hashMod,
     cor |-> pp.corCols[1], given |-> pp.seedExec.given]

RECURSIVE RunProduce(_)
RunProduce(r) ==
    IF r.phase = "seed"
    THEN RunProduce(computeSeedStep(r.p, r.chks, "ok"))
    ELSE IF r.phase = "rec"
    THEN RunProduce(computeRecursiveStep(r.p, "ok", "ok"))
    ELSE r.p

FreshEvaluation(pp) ==
    RunProduce(ProduceGoOn(
        computeSeedBegin(openProducer(NewProducer(ConfigOf(pp)), "ok").p),
        <<>>, "seed"))

\* Rows [beg, end) of a row sequence, counted from 0.
Slice(rows, beg, end) ==
    IF beg >= Len(rows) THEN <<>>
    ELSE SubSeq(rows, beg + 1, IF end < Len(rows) THEN end ELSE Len(rows))
\* The output of the same plan without its LIMIT.
FullOutput(pp) == StRows(FreshEvaluation([pp EXCEPT !.hasLimit = FALSE]).resTbl)
LimitSlice(rows) == Slice(rows, p.limitBeg, p.limitEnd)
IsPrefix(a, b) == Len(a) <= Len(b) /\ a = SubSeq(b, 1, Len(a))

(***************************************************************************)
(* Consumers sharing the producer: what they read, the lock, Open.         *)
(***************************************************************************)
\* The step is an Open or a Close (each moves its caller in the protocol);
\* the step is the return of a Next of c.
IsOpen == last'.op = "Open" /\ st' # st
IsNextOf(c) == last'.op = "Next" /\ last'.c = c /\ last' # last
Expected == IF p.hasLimit THEN LimitSlice(StRows(p.resTbl)) ELSE StRows(p.resTbl)

\* What an open consumer has received: rows of a resTbl that is done, in
\* resTbl's order from its first batch, batch by batch, and all of them
\* once Next returned no rows.
SharedRead(c) ==
    /\ IsPrefix(out[c].rows, Expected)
    /\ (out[c].rows # <<>> \/ out[c].eof) => p.resTbl.done
    /\ out[c].eof => out[c].rows = Expected
    /\ ~p.hasLimit =>
          out[c].rows = Flatten(SubSeq(p.resTbl.chks, 1, e[c].chkIdx))
\* The lock passes from one holder to another only through being free;
\* Open and Close run, and a cursor moves, only in a critical section
\* that was entered with the lock free.
CriticalSections ==
    /\ lock' # lock => (lock = NoOne \/ lock' = NoOne)
    /\ st' # st => lock = NoOne
    /\ \A c \in Consumers :
         (e'[c] # e[c] \/ out'[c] # out[c]) => lock \in {NoOne, c}

\* C4: two consumers of one producer each receive the complete sequence of
\* resTbl's batches, the same for both, however their Next calls
\* interleave; the critical sections of Open, Next and Close never
\* overlap, and no consumer receives rows of a table still being produced.
C4_SharedRead ==
    /\ [](\A c \in Consumers : st[c] = "open" => SharedRead(c))
    /\ [][CriticalSections]_vars
\* Both consumers have read to the end a result of three batches or more.
C4_Witness ==
    /\ \A c \in Consumers : st[c] = "open" /\ out[c].eof
    /\ out["c1"].rows = out["c2"].rows
    /\ ~p.hasLimit
    /\ StNumChunks(p.resTbl) >= 3

\* The producer right after an Open that found a changed correlated value.
IsReset(pp, err) ==
    /\ pp.curIter = 0
    /\ ~pp.produced
    /\ ~pp.closed
    /\ pp.opened = (err = NoErr)
    /\ pp.openErr = err
    /\ pp.hashTbl = IF pp.isDistinct THEN newConcurrentMapHashTable
                    ELSE NilHashTable
    /\ pp.resTbl = NewStorage
    /\ pp.iterInTbl = NewStorage
    /\ ~corColChanged(pp)
\* resTbl is what a fresh evaluation for the current value leaves.
FreshResult ==
    (p.resTbl.done /\ ~corColChanged(p) /\ ~h.badPull)
    => p.resTbl.chks = FreshEvaluation(p).resTbl.chks

\* C7: an Open that finds the fingerprint of the correlated value changed
\* leaves the producer reset (curIter 0, flags and openErr as the new
\* openProducer sets them, a fresh hash index in DISTINCT mode, resTbl and
\* iterInTbl empty, not done, without error), and the production that
\* follows leaves in resTbl what a fresh evaluation for the new value does.
C7_CorrelatedReset ==
    /\ [][(IsOpen /\ corColChanged(p)) => IsReset(p', last'.err)]_vars
    /\ []FreshResult
\* After a result for the value 0, the result for the value 1 was produced
\* by recursion and read to its end.
C7_Witness ==
    /\ p.corCols = <<1>>
    /\ ~corColChanged(p)
    /\ p.resTbl.done
    /\ ~h.badPull
    /\ h.rot >= 1
    /\ p.closed
    /\ \E c \in Consumers : st[c] = "open" /\ out[c].eof /\ out[c].rows # <<>>

\* C8: an Open that finds no correlated value changed, on a producer that
\* was opened before, leaves the producer as it is (hash index, tables,
\* curIter, flags, sub-plans) and only resets the caller's cursor; if
\* resTbl is done, the consumer's next Next returns resTbl's first batch
\* with no turn of produce().
C8_UnchangedOpen ==
    /\ [][(IsOpen /\ ~corColChanged(p) /\ (p.opened \/ p.openErr # NoErr))
          => (/\ p' = p
              /\ pc' = pc
              /\ e'[last'.c] = NewCTEExec)]_vars
    /\ [][\A c \in Consumers :
            (/\ IsNextOf(c) /\ ~Producing /\ p.resTbl.done /\ ~p.hasLimit
             /\ e[c].chkIdx = 0 /\ StNumChunks(p.resTbl) > 0)
            => (/\ last'.req = CopyConstructSel(p.resTbl.chks[1])
                /\ p' = p
                /\ pc' = pc)]_vars
\* A consumer has opened again a producer that is closed and whose result
\* is done.
C8_Witness ==
    /\ last.op = "Open"
    /\ last.err = NoErr
    /\ p.closed
    /\ p.resTbl.done
    /\ StNumChunks(p.resTbl) > 0
    /\ e[last.c] = NewCTEExec

\* C9: a failed openProducer leaves openErr set and opened false; a later
\* Open on the same producer, with no correlated value changed, returns
\* that openErr and leaves the producer and its sub-plans as they are.
C9_StickyOpenErr ==
    /\ [](p.openErr # NoErr => ~p.opened)
    /\ [][(IsOpen /\ last'.err # NoErr)
          => (p'.openErr = last'.err /\ ~p'.opened)]_vars
    /\ [][(IsOpen /\ ~corColChanged(p) /\ p.openErr # NoErr)
          => (last'.err = p.openErr /\ p' = p)]_vars
\* The recursive sub-plan failed to open and both consumers' Open failed.
C9_Witness ==
    /\ \A c \in Consumers : st[c] = "failed"
    /\ last.op = "Open"
    /\ p.openErr = Err("recursiveExec.Open", 0)
    /\ last.err = p.openErr

\* C10: the error of a failing produce() is returned by the Next that ran
\* it and latched on resTbl; while it is latched no turn of produce() runs
\* and a Next returns the latched error, the tables and the cursors
\* unchanged; resTbl is never both done and in error.
C10_LatchedError ==
    /\ [](p.resTbl.err # NoErr => (~p.resTbl.done /\ ~Producing))
    /\ [][(Producing /\ ~Producing' /\ last'.err # NoErr)
          => (/\ p'.resTbl.err = last'.err
              /\ last'.op = "Next"
              /\ last'.c = lock)]_vars
    /\ [][\A c \in Consumers :
            (IsNextOf(c) /\ ~Producing /\ p.resTbl.err # NoErr)
            => (/\ last'.err = p.resTbl.err
                /\ p' = p /\ pc' = pc /\ e' = e /\ out' = out)]_vars
\* The recursive phase failed under one consumer's Next, and the other
\* consumer's Next returned the latched error.
C10_Witness ==
    /\ p.resTbl.err = Err("recursiveExec.Next", 0)
    /\ \A c \in Consumers : st[c] = "open"
    /\ last = Call("Next", "c2", p.resTbl.err, EmptyChunk)
    /\ h.rot >= 1

(***************************************************************************)
(* The done flag gates the consumers' reads.                               *)
(***************************************************************************)
\* C11: a Next that returns without error, with rows or at the end of the
\* result, has read a resTbl that is done; a Next that finds resTbl neither
\* done nor in error runs produce() to its end before it reads: while
\* produce() runs no cursor moves and no consumer receives anything, and
\* the Next that ran it reads only once resTbl.SetDone was called.
C11_DoneGatesReads ==
    /\ [][\A c \in Consumers :
            (IsNextOf(c) /\ last'.err = NoErr) => (p.resTbl.done \/ Producing)
                                                  /\ p'.resTbl.done]_vars
    /\ [][(Producing \/ Producing')
          => \/ (e' = e /\ out' = out)
             \/ (/\ Producing /\ ~Producing'
                 /\ p'.resTbl.done /\ ~p.resTbl.done
                 /\ h'.dones = h.dones + 1
                 /\ IsNextOf(lock))]_vars
\* The Next that ran the production, two rotations long, returned the
\* first batch of the result to its consumer; the other consumer has not
\* read yet.
C11_Witness ==
    /\ last.op = "Next" /\ last.err = NoErr /\ NumRows(last.req) > 0
    /\ h.dones = 1 /\ h.rot = 2
    /\ p.resTbl.done
    /\ e[last.c].chkIdx = 1
    /\ \E c \in Consumers \ {last.c} : st[c] = "open" /\ out[c].rows = <<>>

(***************************************************************************)
(* Panics: the recover() of the two phases, the deferred Unlock().         *)
(***************************************************************************)
\* The step is a turn of produce() whose pull panicked; the step is the
\* return of a Close of c.
PullPanics == Producing /\ ~h.panic /\ h'.panic
IsCloseOf(c) == last'.op = "Close" /\ last'.c = c /\ st'[c] # st[c]

\* C12: a panic raised while the seed phase or the recursive phase runs
\* ends produce() with an error made from the panic value: the Next that
\* ran it returns that error and no panic, the error is latched on resTbl,
\* resTbl is not done (SetDone was not called), the lock is released and
\* no cursor has moved; no Next ever ends with a panic.
C12_PanicRecovered ==
    /\ [][PullPanics
          => (/\ ~Producing'
              /\ IsNextOf(lock)
              /\ last'.err \in {Errorf(Panic("panic in seedExec.Next")),
                                Errorf(Panic("panic in recursiveExec.Next"))}
              /\ p'.resTbl.err = last'.err
              /\ ~p'.resTbl.done /\ h'.dones = h.dones
              /\ lock' = NoOne
              /\ e' = e /\ out' = out)]_vars
    /\ [](~p.resTbl.err.panic /\ (last.op = "Next" => ~last.err.panic))
\* The recursive sub-plan panicked after a rotation; the other consumer's
\* Next took the lock and returned the latched error.
C12_Witness ==
    /\ h.panic /\ h.rot >= 1
    /\ p.resTbl.err = Errorf(Panic("panic in recursiveExec.Next"))
    /\ lock = NoOne
    /\ last.op = "Next" /\ last.err = p.resTbl.err
    /\ \A c \in Consumers : st[c] = "open"

\* C13: a Close that panics while it holds the lock releases it before
\* the panic leaves the call and changes nothing of the producer; the lock
\* is held only while a Next runs produce(), never by a call that has
\* ended, so that the other consumer's Open, Next or Close can take it.
C13_UnlockOnPanic ==
    /\ [][\A c \in Consumers :
            (IsCloseOf(c) /\ last'.err.panic)
            => (lock' = NoOne /\ p' = p /\ st'[c] = "aborted")]_vars
    /\ [](lock # NoOne => (Producing /\ st[lock] = "open"))
    /\ [](last.op \in {"Open", "Next", "Close"} => lock = NoOne)
\* One consumer's Close panicked before closeProducer; the other consumer
\* then took the lock, and its Close closed the producer.
C13_Witness ==
    /\ \E c \in Consumers : st[c] = "aborted"
    /\ last.op = "Close" /\ ~last.err.panic /\ st[last.c] = "closed"
    /\ p.closed /\ p.opened
    /\ lock = NoOne

(***************************************************************************)
(* The producer's flags and closeProducer.                                 *)
(***************************************************************************)
\* C14: the producer is never both opened and closed (at most one of not
\* opened, opened, closed holds).
C14_FlagsExclusive == ~(p.opened /\ p.closed)

\* The step is a Close of c that ran closeProducer to its end.
ClosesProducer(c) == IsCloseOf(c) /\ ~p.closed /\ ~last'.err.panic
SubPlansClosed(pp) ==
    /\ pp.closed
    /\ ~pp.seedExec.open
    /\ ~pp.recursiveExec.open
    /\ ~pp.recursiveExec.isNil => ~pp.iterOutTbl.valid

\* C15: the first Close that reaches closeProducer closes the seed and the
\* recursive sub-plan and sets closed; a Close by any consumer that finds
\* closed set returns nil and leaves the producer (sub-plans, iterOutTbl,
\* flags) as it is; closed is cleared only by the reset of an Open that
\* found a changed correlated value.
C15_ClosedOnce ==
    /\ [][\A c \in Consumers :
            ClosesProducer(c) => SubPlansClosed(p')]_vars
    /\ [][\A c \in Consumers :
            (IsCloseOf(c) /\ p.closed) => (p' = p /\ last'.err = NoErr)]_vars
    /\ [][(p.closed /\ ~p'.closed) => (IsOpen /\ corColChanged(p))]_vars
\* After the first consumer's Close closed the producer, with the recursive
\* sub-plan open and rows in the result, the second consumer's Close
\* returned nil.
C15_Witness ==
    /\ \A c \in Consumers : st[c] = "closed"
    /\ last.op = "Close" /\ last.err = NoErr
    /\ SubPlansClosed(p)
    /\ ~p.recursiveExec.isNil
    /\ p.resTbl.done /\ h.rot >= 1

\* The first of the errors of closeProducer's calls, in the order of the
\* calls.
FirstErr(pp, o) ==
    IF o.seedErr THEN Err("seedExec.Close", 0)
    ELSE IF pp.recursiveExec.isNil THEN NoErr
    ELSE IF o.recErr THEN Err("recursiveExec.Close", 0)
    ELSE IF o.derefErr /\ ~pp.iterOutTbl.isNil
    THEN Err("iterOutTbl.DerefAndClose", 0)
    ELSE NoErr

\* C16: on a producer with a seed sub-plan, whichever of its calls fail,
\* closeProducer closes the seed sub-plan and, when there is one, the
\* recursive sub-plan, releases iterOutTbl, sets closed and returns the
\* first error in the order of the calls; the Close that runs it returns
\* what it returned.
C16_CloseAllFirstErr ==
    /\ [](~p.seedExec.isNil =>
            \A o \in CloseOutcomes :
               /\ SubPlansClosed(closeProducer(p, o).p)
               /\ closeProducer(p, o).err = FirstErr(p, o))
    /\ [][\A c \in Consumers :
            ClosesProducer(c) =>
               \E o \in CloseOutcomes :
                  /\ p' = closeProducer(p, o).p
                  /\ last'.err = FirstErr(p, o)]_vars
\* The Close of the seed sub-plan failed; the recursive sub-plan, which
\* was open, and iterOutTbl are closed all the same.
C16_Witness ==
    /\ last.op = "Close"
    /\ last.err = Err("seedExec.Close", 0)
    /\ SubPlansClosed(p)
    /\ ~p.recursiveExec.isNil
    /\ p.opened

(***************************************************************************)
(* The LIMIT cuts production short.                                        *)
(***************************************************************************)
\* tbl holds limitEnd rows or more.
LimitCovered(pp, tbl) == pp.hasLimit /\ StNumRows(tbl) >= pp.limitEnd
\* The step is the turn of the seed loop that ends the seed phase; the
\* step is a turn of the recursive loop that rotated the tables.
SeedPhaseEnds == pc.phase = "seed" /\ pc'.phase # "seed" /\ p'.curIter = 1
Rotated == pc.phase = "rec" /\ h'.rot = h.rot + 1
\* The seed loop pulls no batch once iterInTbl covers the limit.
SeedStopsAtLimit ==
    (pc.phase = "seed" /\ LimitCovered(p, p.iterInTbl))
    => (SeedPhaseEnds /\ p'.seedExec = p.seedExec /\ h'.pulled = h.pulled)
\* After a rotation that leaves the limit covered the recursive sub-plan
\* is neither reopened nor pulled, curIter stays, and resTbl is done.
RotationStopsAtLimit ==
    (Rotated /\ LimitCovered(p', p'.resTbl))
    => (/\ ~Producing' /\ p'.resTbl.done
        /\ p'.recursiveExec.open = p.recursiveExec.open
        /\ p'.curIter = p.curIter)
\* The recursive phase starts with curIter over the maximum depth.
DepthExceededAtStart(pp) ==
    /\ ~pp.recursiveExec.isNil
    /\ StNumChunks(pp.iterInTbl) # 0
    /\ pp.curIter > pp.ctx.CTEMaxRecursionDepth

\* C20 as stated: the seed phase pulls no batch once iterInTbl holds
\* limitEnd rows; the recursive phase pulls nothing when resTbl holds
\* limitEnd rows, at its start and after a rotation; production then ends
\* with resTbl done.
C20_AsStated ==
    /\ [][SeedStopsAtLimit]_vars
    /\ [][RotationStopsAtLimit]_vars
    /\ [](pc.phase = "rec" => ~LimitCovered(p, p.resTbl))
    /\ [][(SeedPhaseEnds /\ LimitCovered(p', p'.resTbl))
          => (/\ ~Producing' /\ p'.recursiveExec = p.recursiveExec
              /\ p'.resTbl.done)]_vars
\* C20, with the case that the code treats otherwise set apart: the same,
\* except that a recursive phase that starts with curIter over the maximum
\* depth (a depth of 0) fails with ErrCTEMaxRecursionDepth, still without
\* a pull, before it looks at the limit.
C20_LimitStopsProduction ==
    /\ [][SeedStopsAtLimit]_vars
    /\ [][RotationStopsAtLimit]_vars
    /\ [](pc.phase = "rec" => ~LimitCovered(p, p.resTbl))
    /\ [][(SeedPhaseEnds /\ LimitCovered(p', p'.resTbl))
          => (/\ ~Producing' /\ p'.recursiveExec = p.recursiveExec
              /\ IF DepthExceededAtStart(p')
                 THEN /\ ~p'.resTbl.done
                      /\ p'.resTbl.err = ErrCTEMaxRecursionDepth(1)
                 ELSE p'.resTbl.done)]_vars
\* The seed phase stopped with a batch of the seed left unread, and the
\* recursive phase of a recursion without fixpoint ended at once, done,
\* with no pull.
C20_Witness ==
    /\ p.resTbl.done /\ p.hasLimit /\ ~h.badPull
    /\ ~p.recursiveExec.isNil
    /\ h.rot = 0 /\ h.pulled = 2
    /\ p.seedExec.pos < Len(SeedData(p.seedExec, p.corCols[1]))
    /\ p.recursiveExec.pos = 0

(***************************************************************************)
(* The recursive sub-plan between two iterations.                          *)
(***************************************************************************)
\* The step leaves the recursive sub-plan open at its start, having found
\* it closed or read.
Reopened ==
    /\ p'.recursiveExec.open /\ p'.recursiveExec.pos = 0
    /\ (~p.recursiveExec.open \/ p.recursiveExec.pos > 0)
\* What the recursive sub-plan read in its latest Open is iterInTbl as the
\* rotation left it, under the iteration number that follows curIter.
ReadsNewInput ==
    /\ p'.curIter = p.curIter + 1
    /\ p'.iterInTbl.iter = p'.curIter
    /\ StNumChunks(p'.iterInTbl) > 0
    /\ StNumRows(p'.iterOutTbl) = 0
    /\ p'.recursiveExec.input =
           [iter |-> p'.iterInTbl.iter, chks |-> p'.iterInTbl.chks]
SameRecursiveOpen ==
    /\ p'.recursiveExec.open = p.recursiveExec.open
    /\ p'.recursiveExec.input = p.recursiveExec.input
\* C21: in production the recursive sub-plan is reopened only by the turn
\* that rotated the tables, and it then reads the new iterInTbl under the
\* incremented iteration number; a rotation after which production goes on
\* reopened it; a rotation that leaves iterInTbl empty or the limit covered
\* does not reopen it and ends production with resTbl done.
C21_ReopenAfterRotation ==
    [][Producing =>
         /\ Reopened => (Rotated /\ Producing' /\ ReadsNewInput)
         /\ (Rotated /\ Producing') => (Reopened /\ ReadsNewInput)
         /\ ~Rotated => SameRecursiveOpen
         /\ (Rotated /\ (StNumChunks(p'.iterInTbl) = 0
                          \/ LimitCovered(p', p'.resTbl)))
               => (~Producing' /\ p'.resTbl.done /\ SameRecursiveOpen)]_vars
\* The sub-plan was reopened for the third iteration.
C21_Witness ==
    /\ pc.phase = "rec" /\ ~h.badPull
    /\ h.rot = 2 /\ p.curIter = 3
    /\ p.recursiveExec.open /\ p.recursiveExec.pos = 0
    /\ p.recursiveExec.input.iter = 3
    /\ p.recursiveExec.input.chks = p.iterInTbl.chks

(***************************************************************************)
(* Every open of the sub-plans is matched by a close.                      *)
(***************************************************************************)
\* The step is an Open that ran openProducer: after a reset, or with a
\* change of opened or openErr.
OpenProducerRan ==
    /\ IsOpen
    /\ \/ corColChanged(p)
       \/ p'.opened # p.opened
       \/ p'.openErr # p.openErr
\* Nothing that openProducer opens is open: the sub-plans are closed and
\* iterOutTbl is released (or was never allocated).
NothingOpen(pp) ==
    /\ ~pp.seedExec.open
    /\ ~pp.recursiveExec.open
    /\ ~pp.iterOutTbl.valid
\* C22: openProducer runs only on a producer whose sub-plans are closed and
\* whose iterOutTbl is released, whatever Open, Next, Close and changes of
\* the correlated value came before; in production the recursive sub-plan
\* is opened only by the turn that closes it first.
C22_OpenMatchedByClose ==
    [][/\ OpenProducerRan => NothingOpen(p)
       /\ (Producing /\ p'.recursiveExec.open /\ ~p.recursiveExec.open)
             => Rotated]_vars
\* The producer is open again for another correlated value, after a first
\* evaluation that was opened and closed.
C22_Witness ==
    /\ last.op = "Open" /\ last.err = NoErr
    /\ p.corCols # <<0>>
    /\ ~corColChanged(p)
    /\ p.opened /\ ~p.closed
    /\ p.seedExec.open /\ p.recursiveExec.open /\ p.iterOutTbl.valid
    /\ h = NoHist

(***************************************************************************)
(* Production and the closed producer.                                     *)
(***************************************************************************)
\* A Next on a closed producer whose resTbl is done returns rows of resTbl
\* or the end, without error, and leaves the producer as it is.
ReadsDoneAfterClose ==
    \A c \in Consumers :
       (IsNextOf(c) /\ p.closed /\ p.resTbl.done)
         => (last'.err = NoErr /\ p' = p)
\* C23: produce() never runs on a producer that closeProducer has closed
\* (no Next pulls from the closed sub-plans), and a resTbl that is done
\* stays readable by every consumer after the close.
C23_NoProductionAfterClose ==
    /\ [](Producing => ~p.closed)
    /\ [](p.closed => ~h.badPull)
    /\ [][ReadsDoneAfterClose]_vars

(***************************************************************************)
(* SpecDedup: produce() in DISTINCT mode over sub-plans that may yield any *)
(* batch: rows 0, 1 and 2 hashed into two buckets, so that 0 and 2, which  *)
(* are not equal, collide; one or two rows to a batch, with or without a   *)
(* selection list.  The sub-plans yield MaxPulled rows at most.            *)
(***************************************************************************)
DedupVals == {0, 1, 2}
DedupData == {<<a>> : a \in DedupVals}
             \cup {<<a, b>> : a \in DedupVals, b \in DedupVals}
DedupBatches ==
    {NewChunk(d) : d \in DedupData}
    \cup {SetSel(NewChunk(d), <<1>>) : d \in {x \in DedupData : Len(x) = 2}}

InitDedup ==
    /\ p = computeSeedBegin(openProducer(NewProducer(
               [Config(TRUE, "incr", Top, FALSE, 0, 0)
                   EXCEPT !.hashMod = 2]), "ok").p)
    /\ e = [c \in Consumers |-> NewCTEExec]
    /\ lock = "c1"
    /\ pc = [phase |-> "seed", chks |-> <<>>]
    /\ st = [c \in Consumers |-> IF c = "c1" THEN "open" ELSE "init"]
    /\ out = [c \in Consumers |-> [rows |-> <<>>, eof |-> FALSE]]
    /\ last = Call("produce", "c1", NoErr, EmptyChunk)
    /\ h = NoHist

Pulled(pp, chk) == [chk |-> chk, err |-> NoErr, p |-> pp]
CanPull(chk) == h.pulled + NumRows(chk) <= MaxPulled

\* One turn of the seed loop; the seed sub-plan yields chk.
DedupSeed ==
    /\ pc.phase = "seed"
    /\ \E chk \in {b \in DedupBatches \cup {EmptyChunk} : CanPull(b)} :
         \E r \in {SeedPulled(pc.chks, Pulled(p, chk))} :
           \E hh \in {HistPull(h, p.seedExec, chk)} :
              ProduceStep("c1", r, hh)

\* One turn of the recursive loop; the recursive sub-plan yields chk.
DedupRecursive ==
    /\ pc.phase = "rec"
    /\ \E chk \in {b \in DedupBatches \cup {EmptyChunk} : CanPull(b)} :
         \E r \in {RecursivePulled(Pulled(p, chk), "ok")} :
           \E hh \in {HistRecursive(h, p.recursiveExec, Pulled(p, chk))} :
              ProduceStep("c1", r, hh)

NextDedup == DedupSeed \/ DedupRecursive

SpecDedup == InitDedup /\ [][NextDedup]_vars

(***************************************************************************)
(* DISTINCT mode: what an insertion adds to its target table.              *)
(***************************************************************************)
Values(rows) == {rows[i] : i \in 1..Len(rows)}
NoDupRows(rows) ==
    \A i \in 1..Len(rows), j \in 1..Len(rows) : i # j => rows[i] # rows[j]
BatchRows(chk) == CopyConstructSel(chk).data
\* The step is a turn of the seed loop that pulled a batch with rows
\* (h'.batch), to be inserted into iterInTbl; the step is a turn of the
\* recursive loop that pulled no rows, so that iterOutTbl's batches are to
\* be inserted into resTbl.
SeedInsert == pc.phase = "seed" /\ h'.pulled > h.pulled
Rotation == pc.phase = "rec" /\ h'.pulled = h.pulled /\ ~h'.badPull
NewValues(rows, tbl) == Values(rows) \ Values(StRows(tbl))

\* C5: in DISTINCT mode an insertion adds at most one row for each value
\* of the incoming batch that the target table does not hold yet, so that
\* rows value-equal to stored rows, or to an earlier row of the batch, add
\* nothing and a second insertion of the same rows leaves the count as it
\* is; resTbl and iterInTbl never hold two value-equal rows.
C5_DistinctIdempotent ==
    /\ [](NoDupRows(StRows(p.resTbl)) /\ NoDupRows(StRows(p.iterInTbl)))
    /\ [][SeedInsert =>
            StNumRows(p'.iterInTbl) <= StNumRows(p.iterInTbl)
              + Cardinality(NewValues(BatchRows(h'.batch), p.iterInTbl))]_vars
    /\ [][Rotation =>
            StNumRows(p'.resTbl) <= StNumRows(p.resTbl)
              + Cardinality(NewValues(StRows(p.iterOutTbl), p.resTbl))]_vars
\* MaxPulled value-equal rows came from the seed and the recursive
\* sub-plan, and the result holds one row.
C5_Witness ==
    /\ p.resTbl.done
    /\ h.pulled = MaxPulled
    /\ h.rot >= 1
    /\ StNumRows(p.resTbl) = 1

\* C6: in DISTINCT mode every row of an incoming batch is in the target
\* table after the insertion, by itself or by a value-equal row kept
\* before it, whether or not it hashes to the value of another row of the
\* batch or of a stored row.
C6_CollisionSafe ==
    /\ [][SeedInsert =>
            Values(BatchRows(h'.batch)) \subseteq Values(StRows(p'.iterInTbl))]_vars
    /\ [][Rotation =>
            Values(StRows(p.iterOutTbl)) \subseteq Values(StRows(p'.resTbl))]_vars

\* The rows of a sequence that are value-equal neither to a member of seen
\* nor to an earlier row of the sequence, in order.
RECURSIVE FirstOccurrences(_, _)
FirstOccurrences(rows, seen) ==
    IF rows = <<>> THEN <<>>
    ELSE IF Head(rows) \in seen THEN FirstOccurrences(Tail(rows), seen)
    ELSE <<Head(rows)>>
         \o FirstOccurrences(Tail(rows), seen \cup {Head(rows)})
NewRows == FirstOccurrences(StRows(p.iterOutTbl), Values(StRows(p.resTbl)))

\* C18: in DISTINCT mode a rotation appends to resTbl exactly the rows of
\* iterOutTbl that are value-equal neither to a row of resTbl nor to an
\* earlier row of iterOutTbl, makes those rows the whole of the next
\* iterInTbl, and leaves iterOutTbl empty.
C18_DistinctRotation ==
    [][Rotation =>
         (/\ StRows(p'.resTbl) = StRows(p.resTbl) \o NewRows
          /\ StRows(p'.iterInTbl) = NewRows
          /\ StNumRows(p'.iterOutTbl) = 0)]_vars

\* The step is a turn of the recursive loop whose pull returned no rows
\* and no error, on a producer whose sub-plans were open at every pull:
\* the turn calls setupTblsForNewIteration.
RotationTurn ==
    /\ pc.phase = "rec"
    /\ h'.pulled = h.pulled /\ ~h'.panic /\ ~h'.badPull
    /\ p'.resTbl.err # Err("recursiveExec.Next", 0)

\* C19: in UNION ALL mode a rotation appends iterOutTbl's batches to
\* resTbl in order, duplicates included, after the batches resTbl had;
\* the next iterInTbl holds exactly the batches iterOutTbl had, and
\* iterOutTbl is left empty.
C19_UnionAllRotation ==
    [][(RotationTurn /\ ~p.isDistinct)
       => (/\ h'.rot = h.rot + 1
           /\ p'.resTbl.chks = p.resTbl.chks \o p.iterOutTbl.chks
           /\ p'.iterInTbl.chks = p.iterOutTbl.chks
           /\ p'.iterOutTbl.chks = <<>>)]_vars
\* Two rotations in UNION ALL mode left value-equal rows in resTbl, and
\* the second found iterInTbl with rows.
C19_Witness ==
    /\ ~p.isDistinct /\ ~h.badPull
    /\ h.rot = 2
    /\ pc.phase = "rec"
    /\ ~NoDupRows(StRows(p.resTbl))
    /\ StNumRows(p.iterInTbl) > 0
    /\ StNumRows(p.iterOutTbl) = 0

(***************************************************************************)
(* DISTINCT mode: the row pointers of the persistent hash index.           *)
(***************************************************************************)
\* The entries of the hash index: place i of the bucket of key.
Places(hashTbl) ==
    UNION {{[key |-> k, i |-> i] : i \in 1..Len(hashTbl.m[k])} :
              k \in HashKeys}
PtrAt(hashTbl, x) == hashTbl.m[x.key][x.i]
\* Every pointer of hashTbl designates a row of tbl that hashes to the
\* pointer's key; no two entries hold the same pointer, and tbl has as
\* many rows as hashTbl has entries, so that every row of tbl is designated
\* by one pointer, stored under the row's hash.
Resolves(pp, tbl) ==
    /\ \A x \in Places(pp.hashTbl) :
          /\ StHasRow(tbl, PtrAt(pp.hashTbl, x))
          /\ Sum64(pp.ctx, StGetRow(tbl, PtrAt(pp.hashTbl, x))) = x.key
    /\ \A x \in Places(pp.hashTbl), y \in Places(pp.hashTbl) :
          x # y => PtrAt(pp.hashTbl, x) # PtrAt(pp.hashTbl, y)
    /\ Cardinality(Places(pp.hashTbl)) = StNumRows(tbl)
\* The rows that the pointers of pp.hashTbl designate in tbl are the rows
\* that they designate in other.
SameRows(pp, tbl, other) ==
    \A x \in Places(pp.hashTbl) :
       /\ StHasRow(tbl, PtrAt(pp.hashTbl, x))
       /\ StHasRow(other, PtrAt(pp.hashTbl, x))
       /\ StGetRow(tbl, PtrAt(pp.hashTbl, x))
            = StGetRow(other, PtrAt(pp.hashTbl, x))
Failed == p.resTbl.err # NoErr
\* As long as no insertion fails: during the seed phase the pointers of the
\* hash index designate the rows of iterInTbl; at the end of the seed phase
\* they designate the same rows in resTbl; from then on every pointer
\* designates a row of resTbl with the pointer's hash key, one pointer for
\* each row, and it designates the same row for as long as production goes
\* on.
PointersResolveUnlessFailed ==
    /\ []((p.isDistinct /\ pc.phase = "seed") => Resolves(p, p.iterInTbl))
    /\ []((p.isDistinct /\ ~Failed /\ (pc.phase = "rec" \/ p.resTbl.done))
           => Resolves(p, p.resTbl))
    /\ [][(p.isDistinct /\ SeedPhaseEnds /\ ~Failed')
           => SameRows(p', p'.resTbl, p.iterInTbl)]_vars
    /\ [][(p.isDistinct /\ pc.phase = "rec" /\ ~Failed')
           => SameRows(p, p'.resTbl, p.resTbl)]_vars
\* C24: in DISTINCT mode, after the seed phase and after every rotation
\* every pointer of the hash index designates a row of resTbl that has the
\* pointer's hash key, one pointer for each row; the pointers recorded in
\* the seed phase against iterInTbl designate the same rows in resTbl, and
\* a rotation leaves every pointer on the row it designated.
C24_PointersResolve ==
    /\ [][(p.isDistinct /\ SeedPhaseEnds)
           => (/\ Resolves(p', p'.resTbl)
               /\ SameRows(p', p'.resTbl, p.iterInTbl))]_vars
    /\ [][(p.isDistinct /\ Rotation)
           => (/\ Resolves(p', p'.resTbl)
               /\ SameRows(p, p'.resTbl, p.resTbl))]_vars

(***************************************************************************)
(* SpecLimit: one consumer of a non-recursive CTE with a LIMIT, for every  *)
(* layout of the seed's output in batches and every limitBeg <= limitEnd.  *)
(* The seed yields the rows 1..n (n <= MaxRows); in DISTINCT mode every    *)
(* batch but the first also repeats row 1, so that the stored batches have *)
(* a selection list that skips a physical row.                             *)
(***************************************************************************)
RECURSIVE Cut(_, _, _)
Cut(from, n, cuts) ==
    IF from > n THEN <<>>
    ELSE LET to == CHOOSE c \in (cuts \cup {n}) :
                      /\ c >= from
                      /\ \A d \in (cuts \cup {n}) : d >= from => c <= d
         IN  <<[j \in 1..(to - from + 1) |-> from + j - 1]>>
             \o Cut(to + 1, n, cuts)
Layouts ==
    {Cut(1, n, cuts) : n \in 0..MaxRows, cuts \in SUBSET (1..(MaxRows - 1))}
WithDups(layout) ==
    [i \in 1..Len(layout) |-> IF i = 1 THEN layout[i] ELSE <<1>> \o layout[i]]

LimitConfig(isDistinct, layout, beg, end) ==
    [Config(isDistinct, "nil", Top, TRUE, beg, end)
        EXCEPT !.seed = "given",
               !.given = IF isDistinct THEN WithDups(layout) ELSE layout]
LimitConfigs ==
    {LimitConfig(d, l, b, n) :
        d \in BOOLEAN, l \in Layouts,
        b \in 0..(MaxRows + 1), n \in 0..(MaxRows + 1)}

InitLimit ==
    \E cfg \in {c \in LimitConfigs : c.limitBeg <= c.limitEnd} : InitWith(cfg)

NextLimit ==
    \/ Open("c1")
    \/ Next("c1")
    \/ ProduceSeed("c1")
    \/ Close("c1")

SpecLimit == InitLimit /\ [][NextLimit]_vars


\* What the consumer has received since its Open is a prefix of the slice
\* [limitBeg, limitEnd) of resTbl's rows, and all of it once Next returned
\* no rows; that slice is the slice of the unlimited output when no sub-plan
\* was pulled outside the executor protocol.
LimitReceived(c) ==
    /\ IsPrefix(out[c].rows, LimitSlice(StRows(p.resTbl)))
    /\ out[c].eof =>
         /\ out[c].rows = LimitSlice(StRows(p.resTbl))
         /\ ~h.badPull => out[c].rows = LimitSlice(FullOutput(p))
\* A Next of a consumer whose row counter has reached limitEnd emits nothing.
LimitReached(c) ==
    (/\ last'.op = "Next" /\ last'.c = c /\ last'.err = NoErr
     /\ ~Producing /\ e[c].meetFirstBatch /\ e[c].cursor >= p.limitEnd)
    => (NumRows(last'.req) = 0 /\ out'[c].rows = out[c].rows)

ExampleConfig ==
    [Config(TRUE, "example", Top, FALSE, 0, 0)
        EXCEPT !.seed = "example", !.hashMod = Top + 3]
InitExample == InitWith(ExampleConfig)
SpecExample == InitExample /\ [][NextStep]_vars

\* The errors that a sub-plan hands to produce(): a failed or panicking
\* pull, a failed Close or Open between two iterations.
SubPlanErrs ==
    {Err("seedExec.Next", 0), Err("recursiveExec.Next", 0),
     Errorf(Panic("panic in seedExec.Next")),
     Errorf(Panic("panic in recursiveExec.Next")),
     Err("recursiveExec.Close", 0), Err("recursiveExec.Open", 0)}

\* C17: for the seed {1, 2, 3} and the step x -> x + 1 while x < 5 in
\* DISTINCT mode, production fails only if a sub-plan fails, and otherwise
\* leaves resTbl done with the values 1..5, each once, after exactly 3
\* iterations of the recursive sub-plan (3 rotations, curIter 3).
C17_ExampleResult ==
    /\ [](~h.badPull => p.resTbl.err \in SubPlanErrs \cup {NoErr})
    /\ []((p.resTbl.done /\ ~h.badPull)
          => (/\ Values(StRows(p.resTbl)) = 1..5
              /\ StNumRows(p.resTbl) = 5
              /\ h.rot = 3
              /\ p.curIter = 3))
    /\ []((Producing /\ ~h.badPull) => h.rot < 3)
\* Both consumers have read the five rows to the end.
C17_Witness ==
    /\ p.resTbl.done /\ ~h.badPull
    /\ h.rot = 3
    /\ \A c \in Consumers :
         st[c] = "open" /\ out[c].eof /\ Values(out[c].rows) = 1..5
====
